---- MODULE Spec2Model ----
(***************************************************************************)
(* File Sorting Hat: the relocation jobs (Video, Other), the filesystem    *)
(* they act on, and the orchestrator: construction of the jobs, the bulk   *)
(* move, the reports and the resolve loop.                                 *)
(*                                                                         *)
(* A path is a sequence of names below one root, <<>>.  The filesystem is  *)
(* a function from the existing paths to what is there: "dir", or the      *)
(* content of a regular file.  Every operation of a job is an operator     *)
(* from the filesystem before the call to the filesystem after it, the     *)
(* job after it and the exception it raised.                               *)
(*                                                                         *)
(* Four specifications share the variables: Spec is main() from the        *)
(* arguments on; SpecApi is one job whose operations are called in any     *)
(* order; SpecBuild is buildOptions() of one job, answer by answer;        *)
(* SpecNames is the filename functions called on one filename.             *)
(***************************************************************************)
EXTENDS Integers, Sequences, FiniteSets, TLC

VARIABLES
    fs,        \* the filesystem: existing path -> "dir" or file content
    locked,    \* files the operating system holds in use: no unlink, no rename
    factory,   \* the variant the chosen factory makes: "Video" or "Other"
    args,      \* argv[1:], each with the answers buildOptions() will be given;
               \* buildObjects' parameter, gone when it has returned
    jobs,      \* jobList: the MoveObjects, in argument order
    results,   \* moveResults: the MoveResults, in creation order
    pc,        \* where the program is: "api" (operations called directly),
               \* "names" (the filename functions called directly),
               \* "buildOptions", "category", "built" (buildOptions of one job),
               \* "buildObjects", "moveFiles", "reportResults", "while",
               \* "getPolicies", "updatePolicies", "fixErrors", "complete",
               \* "raised" (an exception left main)
    cur,       \* the running loop: number of items it has taken from its list
    fix,       \* main: the last answer to "attempt to resolve them now?"
    policies,  \* main: the policies dictionary
    displayed, \* indices of the results the last reportResults printed
    last,      \* the last job operation since the last report: what was
               \* called, on which job, the filesystem and job before it, the
               \* exception, whether unzip ran, and for a MoveResult method
               \* the result before and after
    moved      \* indices of the jobs a move()/overwrite() has returned for

vars ==
    <<fs, locked, factory, args, jobs, results, pc, cur, fix, policies,
      displayed, last, moved>>

---------------------------------------------------------------------------
(* Paths and names                                                         *)

NoPath == <<>>   \* also the root; as a job field: None / attribute not set

Parent(p) == SubSeq(p, 1, Len(p) - 1)

Name(p) == p[Len(p)]

\* pathlib's suffix and stem, on the names the model uses.
Suffix(name) == IF name = "z.zip" THEN ".zip" ELSE ""

Stem(name) == IF name = "z.zip" THEN "z" ELSE name

\* q is p or lies below p
IsUnder(p, q) == Len(q) >= Len(p) /\ SubSeq(q, 1, Len(p)) = p

Rebase(q, from, to) == to \o SubSeq(q, Len(from) + 1, Len(q))

---------------------------------------------------------------------------
(* Filesystem queries: pathlib's exists, is_file, is_dir, iterdir          *)

Exists(f, p) == p \in DOMAIN f

IsDir(f, p) == p \in DOMAIN f /\ f[p] = "dir"

IsFile(f, p) == p \in DOMAIN f /\ f[p] # "dir"

Below(f, p) == {q \in DOMAIN f : IsUnder(p, q)}

Children(f, p) == {q \in DOMAIN f : Len(q) = Len(p) + 1 /\ IsUnder(p, q)}

\* What is at p, by path relative to p (<<>> is p itself).
Tree(f, p) == [r \in {Rebase(q, p, <<>>) : q \in Below(f, p)} |-> f[p \o r]]

\* The tree t planted at p (p's parent is there already).
Plant(f, p, t) ==
    [q \in DOMAIN f \cup {p \o r : r \in DOMAIN t} |->
        IF IsUnder(p, q) /\ Rebase(q, p, <<>>) \in DOMAIN t
        THEN t[Rebase(q, p, <<>>)] ELSE f[q]]

Without(f, gone) == [q \in DOMAIN f \ gone |-> f[q]]

---------------------------------------------------------------------------
(* Exceptions: the Python class and the call that raised it                *)

Exc(type, at) == [type |-> type, at |-> at]

NoExc == Exc("None", "None")

\* The subclasses of OSError that occur (Error is shutil.Error).
OSErrors ==
    {"OSError", "FileNotFoundError", "FileExistsError", "IsADirectoryError",
     "NotADirectoryError", "PermissionError", "Error"}

\* The result of a filesystem primitive.
Ret(f, e) == [fs |-> f, exc |-> e]

---------------------------------------------------------------------------
(* Filesystem primitives (POSIX semantics; a locked file is in use)        *)

\* Path.unlink
Unlink(f, lk, p) ==
    IF ~Exists(f, p) THEN Ret(f, Exc("FileNotFoundError", "unlink"))
    ELSE IF IsDir(f, p) THEN Ret(f, Exc("IsADirectoryError", "unlink"))
    ELSE IF p \in lk THEN Ret(f, Exc("PermissionError", "unlink"))
    ELSE Ret(Without(f, {p}), NoExc)

\* Path.rmdir
Rmdir(f, p) ==
    IF ~Exists(f, p) THEN Ret(f, Exc("FileNotFoundError", "rmdir"))
    ELSE IF ~IsDir(f, p) THEN Ret(f, Exc("NotADirectoryError", "rmdir"))
    ELSE IF Children(f, p) # {} THEN Ret(f, Exc("OSError", "rmdir"))
    ELSE Ret(Without(f, {p}), NoExc)

\* shutil.rmtree of a directory
Rmtree(f, p) ==
    IF ~Exists(f, p) THEN Ret(f, Exc("FileNotFoundError", "rmtree"))
    ELSE IF ~IsDir(f, p) THEN Ret(f, Exc("NotADirectoryError", "rmtree"))
    ELSE Ret(Without(f, Below(f, p)), NoExc)

\* Path.mkdir
Mkdir(f, p) ==
    IF Exists(f, p) THEN Ret(f, Exc("FileExistsError", "mkdir"))
    ELSE IF ~Exists(f, Parent(p)) THEN Ret(f, Exc("FileNotFoundError", "mkdir"))
    ELSE IF ~IsDir(f, Parent(p)) THEN Ret(f, Exc("NotADirectoryError", "mkdir"))
    ELSE Ret(Plant(f, p, <<>> :> "dir"), NoExc)

\* os.rename
Rename(f, lk, src, dst) ==
    IF ~Exists(f, src) THEN Ret(f, Exc("FileNotFoundError", "rename"))
    ELSE IF ~Exists(f, Parent(dst)) THEN Ret(f, Exc("FileNotFoundError", "rename"))
    ELSE IF ~IsDir(f, Parent(dst)) THEN Ret(f, Exc("NotADirectoryError", "rename"))
    ELSE IF src \in lk THEN Ret(f, Exc("PermissionError", "rename"))
    ELSE IF src = dst THEN Ret(f, NoExc)
    ELSE IF IsUnder(src, dst) THEN Ret(f, Exc("OSError", "rename"))
    ELSE IF IsDir(f, dst) /\ IsFile(f, src)
         THEN Ret(f, Exc("IsADirectoryError", "rename"))
    ELSE IF IsFile(f, dst) /\ IsDir(f, src)
         THEN Ret(f, Exc("NotADirectoryError", "rename"))
    ELSE IF IsDir(f, dst) /\ Children(f, dst) # {}
         THEN Ret(f, Exc("OSError", "rename"))
    ELSE Ret(Plant(Without(f, Below(f, src) \cup {dst}), dst, Tree(f, src)), NoExc)

\* shutil.copy2 of a regular file
Copy2(f, src, dst) ==
    IF ~Exists(f, src) THEN Ret(f, Exc("FileNotFoundError", "copy"))
    ELSE IF ~Exists(f, Parent(dst)) THEN Ret(f, Exc("FileNotFoundError", "copy"))
    ELSE IF ~IsDir(f, Parent(dst)) THEN Ret(f, Exc("NotADirectoryError", "copy"))
    ELSE IF IsDir(f, dst) THEN Ret(f, Exc("IsADirectoryError", "copy"))
    ELSE Ret(Plant(f, dst, <<>> :> f[src]), NoExc)

\* shutil.copytree to a new directory, whose missing parents it creates
CopyTree(f, src, dst) ==
    LET above == {SubSeq(dst, 1, k) : k \in 0..(Len(dst) - 1)}
    IN  IF Exists(f, dst) THEN Ret(f, Exc("FileExistsError", "copy"))
        ELSE IF \E a \in above : IsFile(f, a)
             THEN Ret(f, Exc("NotADirectoryError", "copy"))
        ELSE Ret(Plant([q \in DOMAIN f \cup above |->
                           IF q \in DOMAIN f THEN f[q] ELSE "dir"],
                       dst, Tree(f, src)), NoExc)

\* shutil.move(src, dst): into dst when dst is a directory, else onto dst; a
\* rename, and when the rename fails a copy followed by the removal of src.
ShutilMove(f, lk, src, dst) ==
    LET real == IF IsDir(f, dst) THEN dst \o <<Name(src)>> ELSE dst
    IN  IF IsDir(f, dst) /\ src = dst THEN Rename(f, lk, src, dst)
        ELSE IF IsDir(f, dst) /\ Exists(f, real)
             THEN Ret(f, Exc("Error", "shutil.move"))
        ELSE LET r == Rename(f, lk, src, real)
             IN  IF r.exc = NoExc THEN r
                 ELSE IF IsDir(f, src)
                      THEN IF IsUnder(src, dst)
                           THEN Ret(f, Exc("Error", "shutil.move"))
                           ELSE LET c == CopyTree(f, src, real)
                                IN  IF c.exc # NoExc THEN c ELSE Rmtree(c.fs, src)
                 ELSE LET c == Copy2(f, src, real)
                      IN  IF c.exc # NoExc THEN c ELSE Unlink(c.fs, lk, src)

---------------------------------------------------------------------------
(* Jobs: MoveObject and its two variants                                   *)

Job(kind, source, directory, destination) ==
    [kind |-> kind, source |-> source, directory |-> directory,
     destination |-> destination, unzippedDirectory |-> NoPath]

\* The result of a job operation: the filesystem and the job after it, the
\* exception raised (NoExc: it returned), and whether unzip() was called.
Out(f, job, e, unz) == [fs |-> f, job |-> job, exc |-> e, unzipped |-> unz]

\* MoveObject._destinationSafety
DestinationSafety(job) ==
    IF job.destination = NoPath THEN Exc("ValueError", "_destinationSafety")
    ELSE NoExc

\* Video.validate (with MoveObject.validate)
VideoValidate(f, job) ==
    IF ~Exists(f, job.source) THEN Exc("FileNotFoundError", "validate")
    ELSE IF ~IsFile(f, job.source) THEN Exc("TypeError", "validate")
    ELSE NoExc

\* Mutant of Video.overwrite: validate() is not called first.
VideoOverwriteUnvalidated(f, lk, job) ==
    IF DestinationSafety(job) # NoExc
    THEN Out(f, job, DestinationSafety(job), FALSE)
    ELSE LET u == IF IsFile(f, job.destination)
                  THEN Unlink(f, lk, job.destination) ELSE Ret(f, NoExc)
         IN  IF u.exc # NoExc THEN Out(u.fs, job, u.exc, FALSE)
             ELSE LET m == ShutilMove(u.fs, lk, job.source, job.destination)
                  IN  Out(m.fs, job, m.exc, FALSE)

\* Video.overwrite
VideoOverwrite(f, lk, job) ==
    IF VideoValidate(f, job) # NoExc THEN Out(f, job, VideoValidate(f, job), FALSE)
    ELSE IF DestinationSafety(job) # NoExc
         THEN Out(f, job, DestinationSafety(job), FALSE)
    ELSE LET u == IF IsFile(f, job.destination)
                  THEN Unlink(f, lk, job.destination) ELSE Ret(f, NoExc)
         IN  IF u.exc # NoExc THEN Out(u.fs, job, u.exc, FALSE)
             ELSE LET m == ShutilMove(u.fs, lk, job.source, job.destination)
                  IN  Out(m.fs, job, m.exc, FALSE)

\* Video.move
VideoMove(f, lk, job) ==
    IF job.destination = NoPath
    THEN Out(f, job, Exc("AttributeError", "move"), FALSE)
    ELSE IF IsFile(f, job.destination)
         THEN Out(f, job, Exc("FileExistsError", "move"), FALSE)
    ELSE VideoOverwrite(f, lk, job)

\* Video.delete
VideoDelete(f, lk, job) ==
    IF VideoValidate(f, job) # NoExc THEN Out(f, job, VideoValidate(f, job), FALSE)
    ELSE LET u == IF Exists(f, job.source)
                  THEN Unlink(f, lk, job.source) ELSE Ret(f, NoExc)
         IN  Out(u.fs, job, u.exc, FALSE)

\* Other.isZip
IsZip(f, job) == IsFile(f, job.source) /\ Suffix(Name(job.source)) = ".zip"

\* Mutant of Other.validate: any file is taken for an archive.
OtherValidateAnyFile(f, job) ==
    IF ~Exists(f, job.source) THEN Exc("FileNotFoundError", "validate")
    ELSE NoExc

\* Other.validate (with MoveObject.validate)
OtherValidate(f, job) ==
    IF ~Exists(f, job.source) THEN Exc("FileNotFoundError", "validate")
    ELSE IF ~IsDir(f, job.source) /\ ~IsZip(f, job)
         THEN Exc("TypeError", "validate")
    ELSE NoExc

\* What an archive file holds, as a tree ("zip" is the one archive there is).
ArchiveMembers(content) ==
    (<<>> :> "dir") @@ (<<"f">> :> "c1") @@ (<<"sub">> :> "dir")
        @@ (<<"sub", "g">> :> "c2")

\* fs_helpers.unzip(source, extracted): the archive's members, under a
\* directory that is not there yet.  A file that is no archive cannot be
\* opened (zipfile.BadZipFile, which is no OSError).
Unzip(f, source, extracted) ==
    IF f[source] # "zip" THEN Ret(f, Exc("BadZipFile", "unzip"))
    ELSE IF Exists(f, extracted) THEN Ret(f, Exc("NotADirectoryError", "unzip"))
    ELSE Ret(Plant(f, extracted, ArchiveMembers(f[source])), NoExc)

\* Other._tryUnzip: the extraction target of the job's archive
Extracted(job) == Parent(job.source) \o <<Stem(Name(job.source))>>

\* Mutant of Other._tryUnzip: the archive is extracted whether or not the
\* target directory is there.
TryUnzipAlways(f, job) ==
    IF ~IsZip(f, job) THEN Out(f, job, NoExc, FALSE)
    ELSE Out(Plant(f, Extracted(job), ArchiveMembers(f[job.source])),
             [job EXCEPT !.unzippedDirectory = Extracted(job)], NoExc, TRUE)

\* Other._tryUnzip
TryUnzip(f, job) ==
    IF ~IsZip(f, job) THEN Out(f, job, NoExc, FALSE)
    ELSE IF ~IsDir(f, Extracted(job))
         THEN LET z == Unzip(f, job.source, Extracted(job))
              IN  IF z.exc # NoExc THEN Out(z.fs, job, z.exc, TRUE)
                  ELSE Out(z.fs, [job EXCEPT !.unzippedDirectory = Extracted(job)],
                           NoExc, TRUE)
    ELSE Out(f, [job EXCEPT !.unzippedDirectory = Extracted(job)], NoExc, FALSE)

\* Mutant of Other._cleanup: the archive file is left where it is.
CleanupKeepsArchive(f, lk, job) ==
    LET a == IF job.unzippedDirectory # NoPath /\ IsDir(f, job.unzippedDirectory)
             THEN Rmdir(f, job.unzippedDirectory) ELSE Ret(f, NoExc)
    IN  IF a.exc # NoExc THEN a
        ELSE IF IsDir(a.fs, job.source) THEN Rmdir(a.fs, job.source) ELSE a

\* Other._cleanup
Cleanup(f, lk, job) ==
    LET a == IF job.unzippedDirectory # NoPath /\ IsDir(f, job.unzippedDirectory)
             THEN Rmdir(f, job.unzippedDirectory) ELSE Ret(f, NoExc)
        b == IF a.exc # NoExc THEN a
             ELSE IF job.unzippedDirectory # NoPath /\ IsFile(a.fs, job.source)
                  THEN Unlink(a.fs, lk, job.source) ELSE a
    IN  IF b.exc # NoExc THEN b
        ELSE IF IsDir(b.fs, job.source) THEN Rmdir(b.fs, job.source) ELSE b

\* Mutant of the loop over sourceDirectory.iterdir(): only the regular
\* files are moved.
RECURSIVE MoveChildrenFilesOnly(_, _, _, _)
MoveChildrenFilesOnly(f, lk, todo, destination) ==
    IF todo = {} THEN Ret(f, NoExc)
    ELSE LET path == CHOOSE x \in todo : TRUE
             m == IF IsFile(f, path) THEN ShutilMove(f, lk, path, destination)
                  ELSE Ret(f, NoExc)
         IN  IF m.exc # NoExc THEN m
             ELSE MoveChildrenFilesOnly(m.fs, lk, todo \ {path}, destination)

\* Other.overwrite: the loop over sourceDirectory.iterdir()
RECURSIVE MoveChildren(_, _, _, _)
MoveChildren(f, lk, todo, destination) ==
    IF todo = {} THEN Ret(f, NoExc)
    ELSE LET path == CHOOSE x \in todo : TRUE
             m == ShutilMove(f, lk, path, destination)
         IN  IF m.exc # NoExc THEN m
             ELSE MoveChildren(m.fs, lk, todo \ {path}, destination)

\* Other.overwrite: the directory whose contents are moved
SourceDirectory(job) ==
    IF job.unzippedDirectory # NoPath THEN job.unzippedDirectory ELSE job.source

\* Mutant of Other.overwrite: an existing destination directory is kept and
\* the children are moved into it.
OtherRelocateMerging(f, lk, job, unz) ==
    IF Parent(SourceDirectory(job)) = Parent(job.destination)
    THEN LET m == ShutilMove(f, lk, job.source, Parent(job.destination))
         IN  Out(m.fs, job, m.exc, unz)
    ELSE LET d == IF IsDir(f, job.destination) THEN Ret(f, NoExc)
                  ELSE Mkdir(f, job.destination)
         IN  IF d.exc # NoExc THEN Out(d.fs, job, d.exc, unz)
             ELSE LET c == MoveChildren(d.fs, lk,
                               Children(d.fs, SourceDirectory(job)),
                               job.destination)
                  IN  IF c.exc # NoExc THEN Out(c.fs, job, c.exc, unz)
                      ELSE LET k == Cleanup(c.fs, lk, job)
                           IN  Out(k.fs, job, k.exc, unz)

\* Other.overwrite, from the test of destination.is_dir() on
OtherRelocate(f, lk, job, unz) ==
    LET r == IF IsDir(f, job.destination)
             THEN Rmtree(f, job.destination) ELSE Ret(f, NoExc)
    IN  IF r.exc # NoExc THEN Out(r.fs, job, r.exc, unz)
        ELSE IF Parent(SourceDirectory(job)) = Parent(job.destination)
             THEN LET m == ShutilMove(r.fs, lk, job.source, Parent(job.destination))
                  IN  Out(m.fs, job, m.exc, unz)
        ELSE LET d == Mkdir(r.fs, job.destination)
             IN  IF d.exc # NoExc THEN Out(d.fs, job, d.exc, unz)
                 ELSE LET c == MoveChildren(d.fs, lk,
                                   Children(d.fs, SourceDirectory(job)),
                                   job.destination)
                      IN  IF c.exc # NoExc THEN Out(c.fs, job, c.exc, unz)
                          ELSE LET k == Cleanup(c.fs, lk, job)
                               IN  Out(k.fs, job, k.exc, unz)

\* Mutant of Other.overwrite: the destination is looked for after the
\* archive has been extracted.
OtherOverwriteUnzipsFirst(f, lk, job) ==
    IF OtherValidate(f, job) # NoExc THEN Out(f, job, OtherValidate(f, job), FALSE)
    ELSE LET z == TryUnzip(f, job)
         IN  IF z.exc # NoExc THEN z
             ELSE IF DestinationSafety(job) # NoExc
                  THEN Out(z.fs, z.job, DestinationSafety(job), z.unzipped)
             ELSE OtherRelocate(z.fs, lk, z.job, z.unzipped)

\* Other.overwrite
OtherOverwrite(f, lk, job) ==
    IF OtherValidate(f, job) # NoExc THEN Out(f, job, OtherValidate(f, job), FALSE)
    ELSE IF DestinationSafety(job) # NoExc
         THEN Out(f, job, DestinationSafety(job), FALSE)
    ELSE LET z == TryUnzip(f, job)
         IN  IF z.exc # NoExc THEN z
             ELSE OtherRelocate(z.fs, lk, z.job, z.unzipped)

\* Other.move
OtherMove(f, lk, job) ==
    IF job.destination = NoPath
    THEN Out(f, job, Exc("AttributeError", "move"), FALSE)
    ELSE IF IsDir(f, job.destination)
         THEN Out(f, job, Exc("IsADirectoryError", "move"), FALSE)
    ELSE OtherOverwrite(f, lk, job)

\* Other.delete
OtherDelete(f, lk, job) ==
    IF OtherValidate(f, job) # NoExc THEN Out(f, job, OtherValidate(f, job), FALSE)
    ELSE LET s == IF IsDir(f, job.source) THEN Rmtree(f, job.source)
                  ELSE IF IsFile(f, job.source) THEN Unlink(f, lk, job.source)
                  ELSE Ret(f, NoExc)
         IN  IF s.exc # NoExc THEN Out(s.fs, job, s.exc, FALSE)
             ELSE IF job.unzippedDirectory # NoPath
                     /\ IsDir(s.fs, job.unzippedDirectory)
                  THEN LET u == Rmtree(s.fs, job.unzippedDirectory)
                       IN  Out(u.fs, job, u.exc, FALSE)
             ELSE Out(s.fs, job, NoExc, FALSE)

\* job.move(), job.overwrite(), job.delete(): dispatch on the variant
JobMove(f, lk, job) ==
    IF job.kind = "Video" THEN VideoMove(f, lk, job) ELSE OtherMove(f, lk, job)

JobOverwrite(f, lk, job) ==
    IF job.kind = "Video" THEN VideoOverwrite(f, lk, job)
    ELSE OtherOverwrite(f, lk, job)

JobDelete(f, lk, job) ==
    IF job.kind = "Video" THEN VideoDelete(f, lk, job) ELSE OtherDelete(f, lk, job)

---------------------------------------------------------------------------
(* MoveStatus, MoveResult and the bulk move                                *)

recoverableErrors == {"DUPLICATE", "DELETE_FAILURE"}

MoveResult(file, status, exception) ==
    [file |-> file, status |-> status, exception |-> exception]

\* moveFiles: the status its except clauses give, in their order
MoveStatusOf(e) ==
    IF e = NoExc THEN "SUCCESS"
    ELSE IF e.type \in {"FileExistsError", "IsADirectoryError"} THEN "DUPLICATE"
    ELSE IF e.type \in OSErrors THEN "DELETE_FAILURE"
    ELSE "OTHER_ERROR"

\* No MoveResult (the call was not made through one)
NoResult == MoveResult(0, "None", NoExc)

\* MoveResult.__clear
Clear(result, status) == [result EXCEPT !.status = status, !.exception = NoExc]

\* The outcome of a MoveResult method: that of the job operation, and the
\* result as the method leaves it
Through(o, result) ==
    [fs |-> o.fs, job |-> o.job, exc |-> o.exc, unzipped |-> o.unzipped,
     result |-> result]

\* Mutant of MoveResult.delete: the status is set and the exception kept.
ResultDeleteKeepsException(f, lk, result, job) ==
    LET o == JobDelete(f, lk, job)
    IN  Through(o, IF o.exc = NoExc THEN [result EXCEPT !.status = "DELETED"]
                   ELSE result)

\* MoveResult.delete
ResultDelete(f, lk, result, job) ==
    LET o == JobDelete(f, lk, job)
    IN  Through(o, IF o.exc = NoExc THEN Clear(result, "DELETED") ELSE result)

\* MoveResult.overwrite
ResultOverwrite(f, lk, result, job) ==
    LET o == JobOverwrite(f, lk, job)
    IN  Through(o, IF o.exc = NoExc THEN Clear(result, "OVERWRITTEN") ELSE result)

\* Mutant of reportResults: processed results are printed too.
PrintedAlways(result) == TRUE

\* Mutant of reportResults: no result is marked processed.
ReportedUnmarked(result) == result

\* Mutant of reportResults: every result printed is marked processed.
ReportedAllProcessed(result) == [result EXCEPT !.status = "PROCESSED"]

\* reportResults: whether it prints the result, and the result after it
Printed(result) == result.status # "PROCESSED"

Reported(result) ==
    IF result.status # "PROCESSED" /\ result.status \notin recoverableErrors
    THEN [result EXCEPT !.status = "PROCESSED"]
    ELSE result

\* recoverableErrorsExist
RecoverableErrorsExist(rs) ==
    \E i \in DOMAIN rs : rs[i].status \in recoverableErrors

\* The policies dictionary: {} is not built; getPolicies() builds it, with
\* "duplicates" unless the answer was "i" and "inUse" unless it was "n".
NoPolicies == [built |-> FALSE, duplicates |-> "None", inUse |-> "None"]

GetPolicies(duplicates, inUse) ==
    [built |-> TRUE,
     duplicates |-> IF duplicates # "i" THEN duplicates ELSE "None",
     inUse |-> IF inUse # "n" THEN inUse ELSE "None"]

\* main: len(policies) == 1
OnlyBuilt(p) == p.built /\ p.duplicates = "None" /\ p.inUse = "None"

\* Mutant of fixErrors: a duplicate's source is deleted unless the policy
\* is to overwrite.
FixCallDeletesByDefault(result, p) ==
    IF result.status = "DUPLICATE" /\ p.duplicates = "o" THEN "overwrite"
    ELSE IF result.status = "DUPLICATE" THEN "delete"
    ELSE IF result.status = "DELETE_FAILURE" /\ p.inUse = "y" THEN "delete"
    ELSE "none"

\* fixErrors: the MoveResult method the match statement calls, if any
FixCall(result, p) ==
    IF result.status = "DUPLICATE" /\ p.duplicates = "d" THEN "delete"
    ELSE IF result.status = "DUPLICATE" /\ p.duplicates = "o" THEN "overwrite"
    ELSE IF result.status = "DELETE_FAILURE" /\ p.inUse = "y" THEN "delete"
    ELSE "none"

\* Mutant of fixErrors' except clauses: every exception is taken for a file
\* in use.
FixStatusAlwaysBusy(e) == "DELETE_FAILURE"

\* fixErrors: the status its except clauses give, in their order
FixStatusOf(e) ==
    IF e.type = "FileExistsError" THEN "DUPLICATE"
    ELSE IF e.type \in OSErrors THEN "DELETE_FAILURE"
    ELSE "OTHER_ERROR"

\* fixErrors: the result after the try statement, o being the outcome of
\* the MoveResult method
Caught(o) ==
    IF o.exc = NoExc THEN o.result
    ELSE [o.result EXCEPT !.status = FixStatusOf(o.exc), !.exception = o.exc]

---------------------------------------------------------------------------
(* The filesystems and jobs a run starts from                              *)

MaxJobs == 2

S == <<"S">>
D == <<"D">>

\* A directory with a file, a subdirectory and a file in it: what the
\* archive holds, unpacked.
SourceTree == ArchiveMembers("zip")

\* A directory of other content, none of its names in SourceTree.
OldTree ==
    (<<>> :> "dir") @@ (<<"old">> :> "c3") @@ (<<"keep">> :> "dir")
        @@ (<<"keep", "h">> :> "c3")

\* A directory holding a file named as the source file is.
TreeWithA == (<<>> :> "dir") @@ (<<"a">> :> "c3")

File(content) == <<>> :> content

Absent == <<>> :> "absent"

\* f with t at p, or nothing there when t is Absent
With(f, p, t) == IF t = Absent THEN f ELSE Plant(f, p, t)

BaseFs == (<<>> :> "dir") @@ (S :> "dir") @@ (D :> "dir")

InitialFilesystems ==
    {With(With(With(With(With(BaseFs,
        S \o <<"a">>, a), S \o <<"z.zip">>, z), S \o <<"z">>, zd),
        D \o <<"x">>, x), S \o <<"b">>, b) :
        a \in {Absent, File("c1"), SourceTree},
        z \in {Absent, File("zip"), File("junk")},
        zd \in {Absent, OldTree},
        x \in {Absent, File("c3"), OldTree, TreeWithA},
        b \in {Absent, OldTree}}

Kinds == {"Video", "Other"}

Sources == {S \o <<"a">>, S \o <<"z.zip">>}

\* Never inside a source, nor a source inside one: D/x, D/m/x (D/m is not
\* there), S/b and S/a (beside the source, or the source itself), S/z (the
\* extraction target).
Destinations ==
    {D \o <<"x">>, D \o <<"m", "x">>, S \o <<"b">>, S \o <<"a">>, S \o <<"z">>}

AllJobs ==
    {Job(k, s, D, d) : k \in Kinds, s \in Sources, d \in Destinations \cup {NoPath}}

Validate(f, job) ==
    IF job.kind = "Video" THEN VideoValidate(f, job) ELSE OtherValidate(f, job)

\* buildObjects: the jobs it appends passed validate() and had their
\* destination set by buildOptions()
BuiltJobs(f, kind) ==
    {j \in AllJobs : j.kind = kind /\ Validate(f, j) = NoExc
                        /\ j.destination # NoPath}

SeqsUpTo(set, n) == UNION {[1..k -> set] : k \in 1..n}

\* The files that may be in use: a job's source or destination
Lockable(f, js) ==
    {p \in {js[i].source : i \in DOMAIN js} \cup
            {js[i].destination : i \in DOMAIN js} : IsFile(f, p)}

NoJob == Job("None", NoPath, NoPath, NoPath)

NoCall(f, js) ==
    [op |-> "none", idx |-> 1, fs |-> f,
     job |-> IF js = <<>> THEN NoJob ELSE js[1], exc |-> NoExc,
     unzipped |-> FALSE, was |-> FALSE, old |-> NoResult, res |-> NoResult]

\* The record of operation op on job i with outcome o
Called(op, i, o) ==
    [op |-> op, idx |-> i, fs |-> fs, job |-> jobs[i], exc |-> o.exc,
     unzipped |-> o.unzipped, was |-> i \in moved, old |-> NoResult,
     res |-> NoResult]

\* The record of MoveResult method op on result r with outcome o
CalledOn(op, r, o) ==
    [Called(op, results[r].file, o) EXCEPT !.old = results[r], !.res = o.result]

\* buildOptions: the destinations it builds: in a directory that is there
\* (D/x) and, for a Video, in a category directory that is not (D/m/x)
BuildDestinations(kind) ==
    IF kind = "Video" THEN {D \o <<"x">>, D \o <<"m", "x">>} ELSE {D \o <<"x">>}

\* An argument: the path, and what buildOptions() will make of the answers
\* it is given: a destination, or a ValueError of the filename helpers
Arg(source, destination, raises) ==
    [source |-> source, destination |-> destination, raises |-> raises]

Args(kind) ==
    {Arg(s, d, FALSE) : s \in Sources, d \in BuildDestinations(kind)}
        \cup {Arg(s, NoPath, TRUE) : s \in Sources}

\* buildObjects: the body of the try statement for one argument
Construct(f, kind, arg) ==
    LET file == Job(kind, arg.source, D, NoPath)
    IN  IF Validate(f, file) # NoExc
        THEN [job |-> file, exc |-> Validate(f, file)]
        ELSE IF arg.raises
             THEN [job |-> file, exc |-> Exc("ValueError", "buildOptions")]
        ELSE [job |-> [file EXCEPT !.destination = arg.destination],
              exc |-> NoExc]

\* buildObjects: what its try statement does with the exception
BuildCatch(e) ==
    IF e = NoExc THEN "append"
    ELSE IF e.type \in {"ValueError", "TypeError"} THEN "drop"
    ELSE "raise"

\* The answers input() is given, lower-cased and defaulted; "x" is any
\* answer that is neither of those the prompt names
FixAnswers == {"y", "n", "x"}

DuplicatesAnswers == {"d", "o", "i"}

InUseAnswers == {"y", "n"}

---------------------------------------------------------------------------
(* Spec: main(), from the arguments on                                     *)

\* The run's filesystems: nothing beside the sources yet
RunFilesystems ==
    {f \in InitialFilesystems :
        ~Exists(f, S \o <<"z">>) /\ ~Exists(f, S \o <<"b">>)}

Init ==
    /\ fs \in RunFilesystems
    /\ factory \in Kinds
    /\ args \in SeqsUpTo(Args(factory), MaxJobs)
    /\ locked \in SUBSET Lockable(fs, args)
    /\ Cardinality(locked) <= 1
    /\ jobs = <<>>
    /\ results = <<>>
    /\ pc = "buildObjects"
    /\ cur = 0
    /\ fix = "y"
    /\ policies = NoPolicies
    /\ displayed = {}
    /\ last = NoCall(fs, jobs)
    /\ moved = {}

\* buildObjects: one turn of the loop: the job is appended, or dropped on
\* ValueError and TypeError; any other exception leaves buildObjects and main
BuildObjectsStep ==
    /\ pc = "buildObjects"
    /\ cur < Len(args)
    /\ LET c == Construct(fs, factory, args[cur + 1])
       IN  /\ jobs' = IF BuildCatch(c.exc) = "append"
                      THEN Append(jobs, c.job) ELSE jobs
           /\ pc' = IF BuildCatch(c.exc) = "raise" THEN "raised" ELSE pc
    /\ cur' = cur + 1
    /\ UNCHANGED <<fs, locked, factory, args, results, fix, policies,
                   displayed, last, moved>>

\* buildObjects: KeyboardInterrupt while an argument is processed; break
BuildObjectsInterrupt ==
    /\ pc = "buildObjects"
    /\ cur < Len(args)
    /\ pc' = "moveFiles"
    /\ cur' = 0
    /\ args' = <<>>
    /\ UNCHANGED <<fs, locked, factory, jobs, results, fix, policies,
                   displayed, last, moved>>

\* buildObjects: the arguments are exhausted; return jobList
BuildObjectsReturn ==
    /\ pc = "buildObjects"
    /\ cur = Len(args)
    /\ pc' = "moveFiles"
    /\ cur' = 0
    /\ args' = <<>>
    /\ UNCHANGED <<fs, locked, factory, jobs, results, fix, policies,
                   displayed, last, moved>>

\* moveFiles: one turn of the loop, job.move() returning or raising
MoveFilesStep ==
    /\ pc = "moveFiles"
    /\ cur < Len(jobs)
    /\ LET o == JobMove(fs, locked, jobs[cur + 1])
       IN  /\ fs' = o.fs
           /\ jobs' = [jobs EXCEPT ![cur + 1] = o.job]
           /\ results' = Append(results,
                             MoveResult(cur + 1, MoveStatusOf(o.exc), o.exc))
           /\ last' = Called("move", cur + 1, o)
           /\ moved' = IF o.exc = NoExc THEN moved \cup {cur + 1} ELSE moved
    /\ cur' = cur + 1
    /\ UNCHANGED <<locked, factory, args, pc, fix, policies, displayed>>

\* Mutant of moveFiles: the interrupt loses the results made so far.
MoveFilesInterruptLosesResults ==
    /\ pc = "moveFiles"
    /\ cur < Len(jobs)
    /\ pc' = "reportResults"
    /\ results' = <<>>
    /\ UNCHANGED <<fs, locked, factory, args, jobs, cur, fix, policies,
                   displayed, last, moved>>

\* moveFiles: KeyboardInterrupt as job.move() is entered; break
MoveFilesInterrupt ==
    /\ pc = "moveFiles"
    /\ cur < Len(jobs)
    /\ pc' = "reportResults"
    /\ UNCHANGED <<fs, locked, factory, args, jobs, results, cur, fix,
                   policies, displayed, last, moved>>

\* moveFiles: the list is exhausted; return results
MoveFilesReturn ==
    /\ pc = "moveFiles"
    /\ cur = Len(jobs)
    /\ pc' = "reportResults"
    /\ UNCHANGED <<fs, locked, factory, args, jobs, results, cur, fix,
                   policies, displayed, last, moved>>

\* reportResults, after moveFiles and after each fixErrors
ReportResults ==
    /\ pc = "reportResults"
    /\ displayed' = {i \in DOMAIN results : Printed(results[i])}
    /\ results' = [i \in DOMAIN results |-> Reported(results[i])]
    /\ pc' = "while"
    /\ cur' = 0
    /\ last' = NoCall(fs, jobs)
    /\ UNCHANGED <<fs, locked, factory, args, jobs, fix, policies, moved>>

\* Mutant of main: the loop runs until the user declines.
WhileNotDeclined(rs, answer) == answer # "n"

\* main: the condition of the while statement
WhileCondition(rs, answer) == RecoverableErrorsExist(rs) /\ answer # "n"

\* main: where a turn of the loop goes once policies is built
WithPolicies(p) == IF OnlyBuilt(p) THEN "updatePolicies" ELSE "fixErrors"

\* Mutant of main: the policies are asked for in every turn of the loop.
AskFixAlwaysBuilds ==
    /\ pc = "while"
    /\ WhileCondition(results, fix)
    /\ \E answer \in FixAnswers :
           /\ fix' = answer
           /\ pc' = IF answer # "y" THEN "while" ELSE "getPolicies"
    /\ UNCHANGED <<fs, locked, factory, args, jobs, results, cur, policies,
                   displayed, last, moved>>

\* main: "attempt to resolve them now?" and the answer
AskFix ==
    /\ pc = "while"
    /\ WhileCondition(results, fix)
    /\ \E answer \in FixAnswers :
           /\ fix' = answer
           /\ pc' = IF answer # "y" THEN "while"
                    ELSE IF ~policies.built THEN "getPolicies"
                    ELSE WithPolicies(policies)
    /\ UNCHANGED <<fs, locked, factory, args, jobs, results, cur, policies,
                   displayed, last, moved>>

\* main: policies is empty; getPolicies() and the two answers
BuildPolicies ==
    /\ pc = "getPolicies"
    /\ \E d \in DuplicatesAnswers, u \in InUseAnswers :
           /\ policies' = GetPolicies(d, u)
           /\ pc' = WithPolicies(policies')
    /\ UNCHANGED <<fs, locked, factory, args, jobs, results, cur, fix,
                   displayed, last, moved>>

\* main: "Update policies?" answered y; getPolicies() again, then fixErrors
UpdatePolicies ==
    /\ pc = "updatePolicies"
    /\ \E d \in DuplicatesAnswers, u \in InUseAnswers :
           policies' = GetPolicies(d, u)
    /\ pc' = "fixErrors"
    /\ UNCHANGED <<fs, locked, factory, args, jobs, results, cur, fix,
                   displayed, last, moved>>

\* main: "Update policies?" answered n; continue
KeepPolicies ==
    /\ pc = "updatePolicies"
    /\ pc' = "while"
    /\ UNCHANGED <<fs, locked, factory, args, jobs, results, cur, fix,
                   policies, displayed, last, moved>>

\* The MoveResult method fixErrors calls on result r
FixOutcome(call, r) ==
    IF call = "delete"
    THEN ResultDelete(fs, locked, results[r], jobs[results[r].file])
    ELSE ResultOverwrite(fs, locked, results[r], jobs[results[r].file])

\* fixErrors: one turn of the loop
FixErrorsStep ==
    /\ pc = "fixErrors"
    /\ cur < Len(results)
    /\ LET call == FixCall(results[cur + 1], policies)
       IN  IF call = "none"
           THEN UNCHANGED <<fs, jobs, results, last, moved>>
           ELSE LET o == FixOutcome(call, cur + 1)
                IN  /\ fs' = o.fs
                    /\ jobs' = [jobs EXCEPT ![results[cur + 1].file] = o.job]
                    /\ results' = [results EXCEPT ![cur + 1] = Caught(o)]
                    /\ last' = CalledOn(call, cur + 1, o)
                    /\ moved' = IF o.exc = NoExc /\ call = "overwrite"
                                THEN moved \cup {results[cur + 1].file}
                                ELSE moved
    /\ cur' = cur + 1
    /\ UNCHANGED <<locked, factory, args, pc, fix, policies, displayed>>

\* fixErrors: KeyboardInterrupt as the MoveResult method is entered; the
\* last except clause takes it
FixErrorsInterrupt ==
    /\ pc = "fixErrors"
    /\ cur < Len(results)
    /\ FixCall(results[cur + 1], policies) # "none"
    /\ LET call == FixCall(results[cur + 1], policies)
           o == Through(Out(fs, jobs[results[cur + 1].file],
                            Exc("KeyboardInterrupt", call), FALSE),
                        results[cur + 1])
       IN  /\ results' = [results EXCEPT ![cur + 1] = Caught(o)]
           /\ last' = CalledOn(call, cur + 1, o)
    /\ cur' = cur + 1
    /\ UNCHANGED <<fs, locked, factory, args, jobs, pc, fix, policies,
                   displayed, moved>>

\* fixErrors: the list is exhausted; return results
FixErrorsReturn ==
    /\ pc = "fixErrors"
    /\ cur = Len(results)
    /\ pc' = "reportResults"
    /\ UNCHANGED <<fs, locked, factory, args, jobs, results, cur, fix,
                   policies, displayed, last, moved>>

\* main: the while statement ends; "Processing complete!"
Complete ==
    /\ pc = "while"
    /\ ~WhileCondition(results, fix)
    /\ pc' = "complete"
    /\ UNCHANGED <<fs, locked, factory, args, jobs, results, cur, fix,
                   policies, displayed, last, moved>>

\* The environment: the program that held a file in use lets go of it while
\* main waits for an answer
Release ==
    /\ pc = "while"
    /\ locked # {}
    /\ locked' = {}
    /\ UNCHANGED <<fs, factory, args, jobs, results, pc, cur, fix, policies,
                   displayed, last, moved>>

Next ==
    \/ BuildObjectsStep \/ BuildObjectsInterrupt \/ BuildObjectsReturn
    \/ MoveFilesStep \/ MoveFilesInterrupt \/ MoveFilesReturn
    \/ ReportResults
    \/ AskFix \/ BuildPolicies \/ UpdatePolicies \/ KeepPolicies
    \/ FixErrorsStep \/ FixErrorsInterrupt \/ FixErrorsReturn
    \/ Complete
    \/ Release

Spec == Init /\ [][Next]_vars

---------------------------------------------------------------------------
(* SpecApi: one job, its operations called in any order (as the tests do)  *)

InitApi ==
    /\ fs \in InitialFilesystems
    /\ jobs \in {<<j>> : j \in AllJobs}
    /\ locked \in SUBSET Lockable(fs, jobs)
    /\ Cardinality(locked) <= 1
    /\ factory = jobs[1].kind
    /\ args = <<>>
    /\ results = <<>>
    /\ pc = "api"
    /\ cur = 0
    /\ fix = "y"
    /\ policies = NoPolicies
    /\ displayed = {}
    /\ last = NoCall(fs, jobs)
    /\ moved = {}

\* The effect of a call of op on job i with outcome o
Apply(op, i, o) ==
    /\ fs' = o.fs
    /\ jobs' = [jobs EXCEPT ![i] = o.job]
    /\ last' = Called(op, i, o)
    /\ moved' = IF o.exc = NoExc /\ op \in {"move", "overwrite"}
                THEN moved \cup {i} ELSE moved
    /\ UNCHANGED <<locked, factory, args, results, pc, cur, fix, policies,
                   displayed>>

CallMove ==
    /\ pc = "api"
    /\ Apply("move", 1, JobMove(fs, locked, jobs[1]))

CallOverwrite ==
    /\ pc = "api"
    /\ Apply("overwrite", 1, JobOverwrite(fs, locked, jobs[1]))

CallDelete ==
    /\ pc = "api"
    /\ Apply("delete", 1, JobDelete(fs, locked, jobs[1]))

\* validate() queries the filesystem and returns or raises
CallValidate ==
    /\ pc = "api"
    /\ Apply("validate", 1, Out(fs, jobs[1], Validate(fs, jobs[1]), FALSE))

NextApi == CallMove \/ CallOverwrite \/ CallDelete \/ CallValidate

SpecApi == InitApi /\ [][NextApi]_vars

---------------------------------------------------------------------------
(* Filenames, character by character: tag and name extraction              *)

\* The first index of character c in s, 0 when it is not there
FirstIndex(s, c) ==
    IF \E i \in DOMAIN s : s[i] = c
    THEN CHOOSE i \in DOMAIN s : s[i] = c /\ \A j \in 1..(i - 1) : s[j] # c
    ELSE 0

RECURSIVE SplitOn(_, _)
SplitOn(s, c) ==
    IF FirstIndex(s, c) = 0 THEN <<s>>
    ELSE <<SubSeq(s, 1, FirstIndex(s, c) - 1)>>
            \o SplitOn(SubSeq(s, FirstIndex(s, c) + 1, Len(s)), c)

\* The pieces, with the characters of between between them
RECURSIVE Concat(_, _)
Concat(pieces, between) ==
    IF Len(pieces) = 0 THEN <<>>
    ELSE IF Len(pieces) = 1 THEN pieces[1]
    ELSE pieces[1] \o between \o Concat(Tail(pieces), between)

JoinWith(pieces, c) == Concat(pieces, <<c>>)

RECURSIVE StripLeft(_, _)
StripLeft(s, chars) ==
    IF s # <<>> /\ s[1] \in chars THEN StripLeft(Tail(s), chars) ELSE s

RECURSIVE StripRight(_, _)
StripRight(s, chars) ==
    IF s # <<>> /\ s[Len(s)] \in chars
    THEN StripRight(SubSeq(s, 1, Len(s) - 1), chars) ELSE s

\* Each run of spaces becomes one underscore
RECURSIVE Underscored(_)
Underscored(s) ==
    IF s = <<>> THEN <<>>
    ELSE IF s[1] = " " THEN <<"_">> \o Underscored(StripLeft(s, {" "}))
    ELSE <<s[1]>> \o Underscored(Tail(s))

\* The filename begins with a bracketed prefix
HasPrefix(s) == s # <<>> /\ s[1] = "[" /\ FirstIndex(s, "]") > 0

Interior(s) == SubSeq(s, 2, FirstIndex(s, "]") - 1)

AfterPrefix(s) == SubSeq(s, FirstIndex(s, "]") + 1, Len(s))

\* The characters that separate the prefix from the name
NameSeparators == {" ", "_", "-"}

\* No tag (None)
NoTag == <<"None">>

\* Mutant of the tag's normalisation: the tags are trimmed, the spaces
\* inside them kept.
NormaliseTagKeepsSpaces(interior) ==
    JoinWith([i \in DOMAIN SplitOn(interior, ",") |->
                 StripRight(StripLeft(SplitOn(interior, ",")[i], {" "}), {" "})],
             ",")

\* The interior of the prefix, normalised: the tags between the commas,
\* trimmed, their words joined by underscores, and the tags by commas
NormaliseTag(interior) ==
    JoinWith([i \in DOMAIN SplitOn(interior, ",") |->
                 Underscored(StripRight(StripLeft(SplitOn(interior, ",")[i],
                                                  {" "}), {" "}))],
             ",")

\* MoveObject._extractTag
ExtractTag(s) == IF HasPrefix(s) THEN NormaliseTag(Interior(s)) ELSE NoTag

\* MoveObject._extractName: the name, or the ValueError of a filename with
\* nothing after the prefix
ExtractName(s) ==
    IF ~HasPrefix(s) THEN [name |-> s, exc |-> NoExc]
    ELSE IF StripLeft(AfterPrefix(s), NameSeparators) = <<>>
         THEN [name |-> <<>>, exc |-> Exc("ValueError", "_extractName")]
    ELSE [name |-> StripLeft(AfterPrefix(s), NameSeparators), exc |-> NoExc]

\* The filenames the functions are given: tags of one or two words each,
\* the separators between words, tags, and prefix and name, and the name
MaxTags == 2

MaxWords == 2

Words == {<<"a">>, <<"t", "g">>}

Bases == {<<>>, <<"n">>, <<"n", "-", "m">>}

Filename(tags, wordSep, tagSep, nameSep, base) ==
    [tags |-> tags, wordSep |-> wordSep, tagSep |-> tagSep,
     nameSep |-> nameSep, base |-> base]

Filenames ==
    {Filename(t, w, c, n, b) :
        t \in SeqsUpTo(SeqsUpTo(Words, MaxWords), MaxTags),
        w \in {" ", "_"}, c \in {<<",">>, <<",", " ">>},
        n \in {<<>>, <<" ">>, <<"_">>, <<"-">>}, b \in Bases}
    \cup {Filename(<<>>, " ", <<",">>, <<>>, b) : b \in Bases \ {<<>>}}

\* The filename as written
Render(fn) ==
    IF fn.tags = <<>> THEN fn.base
    ELSE <<"[">>
            \o Concat([i \in DOMAIN fn.tags |-> Concat(fn.tags[i], <<fn.wordSep>>)],
                      fn.tagSep)
            \o <<"]">> \o fn.nameSep \o fn.base

---------------------------------------------------------------------------
(* SpecNames: the filename functions, called on one filename               *)

InitNames ==
    /\ args \in {<<fn>> : fn \in Filenames}
    /\ fs = BaseFs
    /\ locked = {}
    /\ factory = "Video"
    /\ jobs = <<>>
    /\ results = <<>>
    /\ pc = "names"
    /\ cur = 0
    /\ fix = "y"
    /\ policies = NoPolicies
    /\ displayed = {}
    /\ last = [op |-> "none", ret |-> <<>>, exc |-> NoExc]
    /\ moved = {}

CallExtractTag ==
    /\ pc = "names"
    /\ last' = [op |-> "_extractTag", ret |-> ExtractTag(Render(args[1])),
                exc |-> NoExc]
    /\ UNCHANGED <<fs, locked, factory, args, jobs, results, pc, cur, fix,
                   policies, displayed, moved>>

CallExtractName ==
    /\ pc = "names"
    /\ last' = [op |-> "_extractName", ret |-> ExtractName(Render(args[1])).name,
                exc |-> ExtractName(Render(args[1])).exc]
    /\ UNCHANGED <<fs, locked, factory, args, jobs, results, pc, cur, fix,
                   policies, displayed, moved>>

NextNames == CallExtractTag \/ CallExtractName

SpecNames == InitNames /\ [][NextNames]_vars

---------------------------------------------------------------------------
(* SpecBuild: buildOptions() of one job, answer by answer                  *)

\* subDirectories: the category menu, index -> (title, directory name)
subDirectories ==
    (0 :> <<"Live", "live">>) @@ (1 :> <<"3D", "3d">>)
        @@ (2 :> <<"Animated", "animated">>)

DigitValue == ("0" :> 0) @@ ("1" :> 1) @@ ("2" :> 2) @@ ("3" :> 3)

RECURSIVE Decimal(_)
Decimal(digits) ==
    IF digits = <<>> THEN 0
    ELSE 10 * Decimal(SubSeq(digits, 1, Len(digits) - 1))
            + DigitValue[digits[Len(digits)]]

\* int(answer): surrounding whitespace and a sign are accepted; anything
\* but digits after them, or no digit at all, is a ValueError
IntOf(answer) ==
    LET text == StripRight(StripLeft(answer, {" "}), {" "})
        signed == text # <<>> /\ text[1] \in {"+", "-"}
        digits == IF signed THEN Tail(text) ELSE text
    IN  IF digits = <<>> \/ \E i \in DOMAIN digits : digits[i] \notin DOMAIN DigitValue
        THEN [value |-> 0, exc |-> Exc("ValueError", "int")]
        ELSE [value |-> IF signed /\ text[1] = "-" THEN -Decimal(digits)
                        ELSE Decimal(digits),
              exc |-> NoExc]

\* category: None, or a number
NoCategory == [none |-> TRUE, value |-> 0]

Category(value) == [none |-> FALSE, value |-> value]

\* Video.buildOptions: one turn of the while loop: the category after the
\* try statement
CategoryOf(answer) ==
    IF IntOf(answer).exc # NoExc THEN NoCategory
    ELSE Category(IntOf(answer).value)

\* Mutant of the while loop's condition: any number ends the loop.
CategoryChosenAnyNumber(category) == ~category.none

\* Video.buildOptions: the while loop ends
CategoryChosen(category) ==
    ~(category.none \/ category.value \notin DOMAIN subDirectories)

\* The answers given to "Choose category #: "
CategoryAnswers ==
    {<<"0">>, <<"2">>, <<"3">>, <<"-", "1">>, <<"x">>, <<>>, <<" ", "1">>,
     <<"0", "2">>, <<"-", "0">>}

MaxAnswers == 3

\* The names buildOptions ends up with (sanitized name and extension)
FinalNames == {"x", "a"}

\* What buildOptions has read: the final name the name prompts and the
\* filename helpers give (or their ValueError), the last answer to the
\* category prompt and the category it gave
Options(finalName, raises, answer, category) ==
    [op |-> "buildOptions", finalName |-> finalName, raises |-> raises,
     answer |-> answer, category |-> category]

InitBuild ==
    /\ factory \in Kinds
    /\ jobs \in {<<Job(factory, s, D, NoPath)>> : s \in Sources}
    /\ args \in IF factory = "Video" THEN SeqsUpTo(CategoryAnswers, MaxAnswers)
                ELSE {<<>>}
    /\ last \in {Options(n, r, <<>>, NoCategory) : n \in FinalNames, r \in BOOLEAN}
    /\ fs = BaseFs
    /\ locked = {}
    /\ results = <<>>
    /\ pc = "buildOptions"
    /\ cur = 0
    /\ fix = "y"
    /\ policies = NoPolicies
    /\ displayed = {}
    /\ moved = {}

\* buildOptions, up to finalName; Other.buildOptions sets the destination
BuildName ==
    /\ pc = "buildOptions"
    /\ IF last.raises
       THEN pc' = "raised" /\ jobs' = jobs
       ELSE IF jobs[1].kind = "Other"
            THEN /\ jobs' = [jobs EXCEPT ![1].destination =
                                jobs[1].directory \o <<last.finalName>>]
                 /\ pc' = "built"
            ELSE pc' = "category" /\ jobs' = jobs
    /\ UNCHANGED <<fs, locked, factory, args, results, cur, fix, policies,
                   displayed, last, moved>>

\* Video.buildOptions: one turn of the while loop, and what follows it
\* when it ends
ChooseCategory ==
    /\ pc = "category"
    /\ args # <<>>
    /\ LET category == CategoryOf(Head(args))
       IN  /\ last' = [last EXCEPT !.answer = Head(args), !.category = category]
           /\ IF ~CategoryChosen(category)
              THEN pc' = pc /\ jobs' = jobs
              ELSE IF category.value \notin DOMAIN subDirectories
                   THEN pc' = "raised" /\ jobs' = jobs
              ELSE /\ jobs' = [jobs EXCEPT ![1].destination =
                                  jobs[1].directory
                                      \o <<subDirectories[category.value][2]>>
                                      \o <<last.finalName>>]
                   /\ pc' = "built"
    /\ args' = Tail(args)
    /\ cur' = cur + 1
    /\ UNCHANGED <<fs, locked, factory, results, fix, policies, displayed,
                   moved>>

NextBuild == BuildName \/ ChooseCategory

SpecBuild == InitBuild /\ [][NextBuild]_vars

---------------------------------------------------------------------------
(* The last call, as the properties below read it                          *)

Pre == last.fs                    \* the filesystem before the call
Src == last.job.source
Dst == last.job.destination
Returned == last.exc = NoExc

\* The directory a composite job moves the contents of, and those contents
SrcDir == IF IsDir(Pre, Src) THEN Src ELSE Extracted(last.job)

FormerContents ==
    IF IsDir(Pre, SrcDir) THEN Tree(Pre, SrcDir) ELSE ArchiveMembers(Pre[Src])

\* A valid composite job with destination set, in a call that gets as far
\* as Other._tryUnzip
ReachedUnzip ==
    /\ last.job.kind = "Other"
    /\ OtherValidate(Pre, last.job) = NoExc
    /\ Dst # NoPath
    /\ \/ last.op = "overwrite"
       \/ last.op = "move" /\ ~IsDir(Pre, Dst)

---------------------------------------------------------------------------
(* C1 (as claimed; the code differs).  The status moveFiles gives a new    *)
(* Result follows move()'s outcome: SUCCESS if it returned, DUPLICATE on   *)
(* FileExistsError or IsADirectoryError, DELETE_FAILURE only on an         *)
(* operating-system error raised by the underlying remove or rename, and   *)
(* OTHER_ERROR on every other failure, a source that is gone and a         *)
(* destination whose parent is missing (FileNotFoundError) included.       *)
C1_InitialStatusFollowsOutcome ==
    (pc = "moveFiles" /\ last.op = "move") =>
        LET r == results[Len(results)]
        IN  /\ r.file = last.idx
            /\ Returned <=> r.status = "SUCCESS"
            /\ last.exc.type \in {"FileExistsError", "IsADirectoryError"}
                    <=> r.status = "DUPLICATE"
            /\ r.status = "DELETE_FAILURE" =>
                    /\ last.exc.type \in OSErrors \ {"FileNotFoundError"}
                    /\ last.exc.at \in {"unlink", "rename", "rmdir", "rmtree",
                                        "shutil.move"}
            /\ last.exc.type = "FileNotFoundError" => r.status = "OTHER_ERROR"
            /\ (~Returned /\ last.exc.type \notin OSErrors)
                    => r.status = "OTHER_ERROR"

(* C2 (as claimed; the code differs).  move() on a valid job of either     *)
(* variant whose destination exists, as a file or as a directory, fails    *)
(* with a destination-conflict error and leaves the filesystem as it was.  *)
C2_MoveOntoExistingFailsUnchanged ==
    (last.op = "move" /\ Validate(Pre, last.job) = NoExc /\ Dst # NoPath
        /\ Exists(Pre, Dst)) =>
        /\ last.exc.type \in {"FileExistsError", "IsADirectoryError"}
        /\ fs = Pre

(* C3 (as claimed; the code differs).  Whenever move() of a valid Video    *)
(* job with destination set returns, the source is gone and the            *)
(* destination is a file with the content the source had.                  *)
C3_VideoMoveRelocatesContent ==
    (last.op = "move" /\ last.job.kind = "Video" /\ IsFile(Pre, Src)
        /\ Dst # NoPath /\ Returned) =>
        /\ ~Exists(fs, Src)
        /\ IsFile(fs, Dst)
        /\ fs[Dst] = Pre[Src]

(* C4 (as claimed; the code differs).  overwrite() of a valid Video job    *)
(* whose destination is an existing file, nothing being in use, leaves the *)
(* source's content at destination and nowhere else: the source is gone,   *)
(* the old destination content is gone, the rest is untouched.             *)
C4_VideoOverwriteLeavesOneCopy ==
    (last.op = "overwrite" /\ last.job.kind = "Video" /\ IsFile(Pre, Src)
        /\ Dst # NoPath /\ IsFile(Pre, Dst) /\ locked = {}) =>
        /\ IsFile(fs, Dst)
        /\ fs[Dst] = Pre[Src]
        /\ Src # Dst => ~Exists(fs, Src)
        /\ Without(fs, {Src, Dst}) = Without(Pre, {Src, Dst})

(* C5.  overwrite() on a job that a move() or overwrite() has already      *)
(* returned for fails in validate() with FileNotFoundError (the source is  *)
(* gone) and changes neither the filesystem, the destination the first     *)
(* call produced included, nor the job.                                    *)
C5_SecondOverwriteFailsValidation ==
    (last.op = "overwrite" /\ last.was) =>
        /\ last.exc = Exc("FileNotFoundError", "validate")
        /\ fs = Pre
        /\ jobs[last.idx] = last.job

C5_Witness ==
    /\ last.op = "overwrite"
    /\ last.was
    /\ ~Returned
    /\ last.job.kind = "Other"
    /\ IsDir(fs, Dst \o <<"sub">>)

(* C6.  move() of a composite job whose source is a directory tree, to a   *)
(* destination that does not exist under an existing directory other than  *)
(* the source's parent, returns; afterwards the tree at destination is the *)
(* source's tree, every file with its content at the same relative path,   *)
(* and the source path does not exist.                                     *)
C6_DirectoryMoveReproducesTree ==
    (last.op = "move" /\ last.job.kind = "Other" /\ IsDir(Pre, Src)
        /\ Dst # NoPath /\ ~Exists(Pre, Dst) /\ IsDir(Pre, Parent(Dst))
        /\ Parent(Dst) # Parent(Src)) =>
        /\ Returned
        /\ Tree(fs, Dst) = Tree(Pre, Src)
        /\ ~Exists(fs, Src)

C6_Witness ==
    /\ last.op = "move"
    /\ last.job.kind = "Other"
    /\ IsDir(Pre, Src)
    /\ IsFile(Pre, Src \o <<"sub", "g">>)
    /\ ~Exists(Pre, Dst)
    /\ Returned
    /\ IsFile(fs, Dst \o <<"sub", "g">>)

(* C7.  Whenever overwrite() of a composite job whose destination is an    *)
(* existing directory returns, the tree at destination is exactly what the *)
(* source directory (the directory itself, or the archive's extraction     *)
(* directory) held before: nothing of the previous destination survives,   *)
(* and the source path does not exist.                                     *)
C7_CompositeOverwriteReplaces ==
    (last.op = "overwrite" /\ last.job.kind = "Other" /\ Dst # NoPath
        /\ IsDir(Pre, Dst) /\ Returned) =>
        /\ Tree(fs, Dst) = FormerContents
        /\ \A r \in DOMAIN Tree(Pre, Dst) :
               r \notin DOMAIN FormerContents => ~Exists(fs, Dst \o r)
        /\ ~Exists(fs, Src)

C7_Witness ==
    /\ last.op = "overwrite"
    /\ last.job.kind = "Other"
    /\ IsDir(Pre, Src)
    /\ IsFile(Pre, Dst \o <<"keep", "h">>)
    /\ Returned
    /\ IsFile(fs, Dst \o <<"sub", "g">>)

(* C8 (as claimed; the code differs).  When the source directory of a      *)
(* valid composite job (the directory itself, or the archive's extraction  *)
(* directory) has the parent destination has, move()/overwrite() is a      *)
(* rename: it returns, destination holds the source's contents and the     *)
(* source directory is gone under its old name.                            *)
C8_SameParentIsRename ==
    (ReachedUnzip /\ Parent(SrcDir) = Parent(Dst) /\ SrcDir # Dst) =>
        /\ Returned
        /\ Tree(fs, Dst) = FormerContents
        /\ ~Exists(fs, SrcDir)

(* C9 (as claimed; the code differs).  Whenever move() of a composite job  *)
(* whose source is a zip archive returns, destination is a directory with  *)
(* the archive's contents, the archive file is gone and the extraction     *)
(* directory source.parent/source.stem is gone.                            *)
C9_ZipMoveYieldsArchiveContents ==
    (last.op = "move" /\ last.job.kind = "Other" /\ IsFile(Pre, Src)
        /\ Pre[Src] = "zip" /\ Returned) =>
        /\ Tree(fs, Dst) = ArchiveMembers(Pre[Src])
        /\ ~Exists(fs, Src)
        /\ ~Exists(fs, Extracted(last.job))

(* C9, amended.  Whenever move() of a composite job whose source is a zip  *)
(* archive returns, destination is a directory with the contents of the    *)
(* extraction directory source.parent/source.stem: the archive's contents  *)
(* when that directory did not exist before the call, what it held before  *)
(* the call otherwise; the archive file and the extraction directory are   *)
(* gone.                                                                   *)
C9_ZipMoveYieldsExtractedContents ==
    (last.op = "move" /\ last.job.kind = "Other" /\ IsFile(Pre, Src)
        /\ Pre[Src] = "zip" /\ Returned) =>
        /\ Tree(fs, Dst) =
               IF IsDir(Pre, Extracted(last.job))
               THEN Tree(Pre, Extracted(last.job))
               ELSE ArchiveMembers(Pre[Src])
        /\ ~Exists(fs, Src)
        /\ ~Exists(fs, Extracted(last.job))

C9_Witness ==
    /\ last.op = "move"
    /\ last.job.kind = "Other"
    /\ IsFile(Pre, Src)
    /\ Pre[Src] = "zip"
    /\ ~Exists(Pre, Extracted(last.job))
    /\ Returned
    /\ IsFile(fs, Dst \o <<"sub", "g">>)

(* C10.  The extraction target of an archive job is                        *)
(* source.parent/source.stem.  When that directory exists as overwrite()   *)
(* reaches _tryUnzip, unzip is not called, the job takes the directory as  *)
(* its unzippedDirectory, and the directory's contents are what is moved:  *)
(* if the call returns, destination holds exactly what the directory held; *)
(* and in any case what the directory held is, unaltered, either still in  *)
(* it or at destination (unless the directory is destination itself,      *)
(* which overwrite erases).                                                *)
C10_ExistingExtractionIsReused ==
    (ReachedUnzip /\ IsZip(Pre, last.job) /\ IsDir(Pre, Extracted(last.job))) =>
        /\ ~last.unzipped
        /\ jobs[last.idx].unzippedDirectory =
               Parent(Src) \o <<Stem(Name(Src))>>
        /\ Returned => Tree(fs, Dst) = Tree(Pre, Extracted(last.job))
        /\ Dst # Extracted(last.job) =>
               Tree(Pre, Extracted(last.job)) \in
                   {Tree(fs, Extracted(last.job)), Tree(fs, Dst)}

C10_Witness ==
    /\ ReachedUnzip
    /\ IsZip(Pre, last.job)
    /\ IsDir(Pre, Extracted(last.job))
    /\ last.was = FALSE
    /\ Returned
    /\ IsFile(fs, Dst \o <<"keep", "h">>)

---------------------------------------------------------------------------
(* The orchestrator, as the properties below read it                       *)

\* The step is a turn of the loop of buildObjects, of fixErrors
BuildsOne == pc = "buildObjects" /\ cur < Len(args) /\ cur' = cur + 1

FixesOne == pc = "fixErrors" /\ cur < Len(results) /\ cur' = cur + 1

\* The step is a turn of fixErrors that called a MoveResult method
FixCalls == FixesOne /\ FixCall(results[cur + 1], policies) # "none"

\* The step is a report pass
Reports == pc = "reportResults" /\ pc' = "while"

(* C11 (as claimed; the code differs).  In buildObjects an argument whose  *)
(* construction fails (the source path is missing, it is of the wrong type *)
(* for the variant, or the interactive input is invalid) is dropped and    *)
(* nothing else: no job is appended, the exception does not leave          *)
(* buildObjects, and the loop goes on to the next argument.                *)
C11_ConstructionErrorDropsOnlyTheArgument ==
    [][(BuildsOne /\ Construct(fs, factory, args[cur + 1]).exc # NoExc) =>
            /\ jobs' = jobs
            /\ pc' = "buildObjects"]_vars

(* C12.  When fixErrors calls delete() or overwrite() of a MoveResult and  *)
(* the job operation returns, the method leaves the result DELETED         *)
(* (delete) or OVERWRITTEN (overwrite) with no exception stored, and that  *)
(* is the result in the list; when the job operation raises, the method    *)
(* leaves the result's status and exception as they were.                  *)
C12_ResultMethodUpdatesOnSuccessOnly ==
    (pc = "fixErrors" /\ last.old # NoResult) =>
        /\ Returned =>
               /\ last.res.status =
                      IF last.op = "delete" THEN "DELETED" ELSE "OVERWRITTEN"
               /\ last.res.exception = NoExc
               /\ last.res.file = last.old.file
               /\ results[last.idx] = last.res
        /\ ~Returned => last.res = last.old

C12_Witness ==
    /\ pc = "fixErrors"
    /\ last.op = "overwrite"
    /\ last.old.status = "DUPLICATE"
    /\ last.old.exception # NoExc
    /\ Returned
    /\ results[last.idx].status = "OVERWRITTEN"
    /\ results[last.idx].exception = NoExc

(* C13 (as claimed; the code differs).  In every state of a run a result   *)
(* stores an exception only while its status is the error status that      *)
(* exception was classified as (DUPLICATE, DELETE_FAILURE or OTHER_ERROR); *)
(* a result that is SUCCESS, DELETED, OVERWRITTEN or PROCESSED stores      *)
(* none.                                                                   *)
C13_DiagnosticMatchesStatus ==
    \A i \in DOMAIN results :
        /\ results[i].exception # NoExc =>
               results[i].status \in {MoveStatusOf(results[i].exception),
                                      FixStatusOf(results[i].exception)}
        /\ results[i].status \in {"SUCCESS", "DELETED", "OVERWRITTEN", "PROCESSED"}
               => results[i].exception = NoExc

Prompts ==
    \/ pc = "while" /\ (fix' # fix \/ pc' \notin {"while", "complete"})
    \/ pc \in {"getPolicies", "updatePolicies"}

(* C15.  The while loop of main runs as long as some result is recoverable *)
(* and the last answer to "attempt to resolve them now?" is not "n":       *)
(* "Processing complete!" is reached only when no result is DUPLICATE or   *)
(* DELETE_FAILURE or that answer was "n", and is not reached from the head *)
(* of the loop otherwise; the user is prompted only while some result is   *)
(* recoverable and that answer is not "n", so with no recoverable result   *)
(* after the first report there is no prompt at all.                       *)
C15_LoopWhileRecoverableAndNotDeclined ==
    [][/\ pc' = "complete" => ~RecoverableErrorsExist(results') \/ fix' = "n"
       /\ (pc = "while" /\ RecoverableErrorsExist(results) /\ fix # "n")
              => pc' # "complete"
       /\ Prompts => RecoverableErrorsExist(results) /\ fix # "n"
       /\ (pc = "while" /\ ~RecoverableErrorsExist(results)) =>
              /\ pc' \in {"while", "complete"}
              /\ ~RecoverableErrorsExist(results')
              /\ fix' = fix
              /\ policies' = policies]_vars

\* Completion on a decline, after a resolve pass that left a result
\* recoverable
C15_Witness ==
    /\ pc = "complete"
    /\ fix = "n"
    /\ policies.built
    /\ ~OnlyBuilt(policies)
    /\ RecoverableErrorsExist(results)

(* C16 (as claimed; the code differs).  When the policies built are empty  *)
(* (duplicates ignored, no retry) no resolution action is applied to any   *)
(* result and the user is offered to update the policies; when the user    *)
(* declines, the while loop is left: its condition is false, so the run    *)
(* goes on to "Processing complete!" without asking again whether to       *)
(* resolve.                                                                *)
C16_EmptyPolicyDeclinedLeavesLoop ==
    [][/\ (pc = "getPolicies" /\ OnlyBuilt(policies')) => pc' = "updatePolicies"
       /\ (pc = "while" /\ OnlyBuilt(policies) /\ pc' \notin {"while", "complete"})
              => pc' = "updatePolicies"
       /\ (OnlyBuilt(policies) /\ OnlyBuilt(policies')) =>
              results' = results /\ fs' = fs
       /\ (pc = "updatePolicies" /\ pc' # "fixErrors") =>
              ~WhileCondition(results', fix')]_vars

(* C17.  In fixErrors an exception of the MoveResult method called for a   *)
(* result is caught for that result: the result stores it and takes the    *)
(* status of its class (FileExistsError: DUPLICATE; any other OSError:     *)
(* DELETE_FAILURE; anything else, an interrupt included: OTHER_ERROR), no  *)
(* other result changes, and the pass goes on: fixErrors is left only when *)
(* every result of the list has had its turn.  (shutil's own error for an  *)
(* occupied destination does not arise in a pass.)                         *)
C17_FailureIsCaughtPerResult ==
    [][pc = "fixErrors" =>
           /\ cur < Len(results) =>
                  pc' = "fixErrors" /\ cur' = cur + 1 /\ Len(results') = Len(results)
           /\ pc' # "fixErrors" => cur = Len(results) /\ pc' = "reportResults"
           /\ (FixCalls /\ last'.exc # NoExc) =>
                  /\ results'[cur + 1].exception = last'.exc
                  /\ results'[cur + 1].status =
                         IF last'.exc.type = "FileExistsError" THEN "DUPLICATE"
                         ELSE IF last'.exc.type \in OSErrors THEN "DELETE_FAILURE"
                         ELSE "OTHER_ERROR"
                  /\ last'.exc.type # "Error"
                  /\ \A i \in DOMAIN results \ {cur + 1} : results'[i] = results[i]]_vars

\* The first result's overwrite failed on a file that is no archive, and
\* the second result was overwritten after it in the same pass
C17_Witness ==
    /\ pc = "fixErrors"
    /\ cur = 2
    /\ results[1].status = "OTHER_ERROR"
    /\ results[1].exception.type = "BadZipFile"
    /\ last.idx = 2
    /\ last.old.status = "DUPLICATE"
    /\ Returned
    /\ results[2].status = "OVERWRITTEN"

(* C18.  A MoveResult method that fixErrors calls and that returns leaves  *)
(* the result DELETED or OVERWRITTEN; when a pass ends with every result   *)
(* of the list so (all were recoverable, the policies acted on each and    *)
(* each action succeeded), the report that follows leaves them all         *)
(* PROCESSED and the condition of the while loop false: the loop ends      *)
(* after that pass, with no further prompt.                                *)
C18_OnePassResolvesAll ==
    [][/\ (FixCalls /\ last'.exc = NoExc) =>
              results'[cur + 1].status =
                  IF FixCall(results[cur + 1], policies) = "delete"
                  THEN "DELETED" ELSE "OVERWRITTEN"
       /\ (Reports /\ results # <<>> /\
              \A i \in DOMAIN results :
                  results[i].status \in {"DELETED", "OVERWRITTEN"}) =>
              /\ \A i \in DOMAIN results' : results'[i].status = "PROCESSED"
              /\ ~RecoverableErrorsExist(results')
       /\ (pc = "while" /\ ~RecoverableErrorsExist(results)) =>
              ~Prompts /\ pc' \in {"while", "complete"}]_vars

\* Two results, both printed by the last report, both resolved (no
\* exception stored) by the pass before it, and the run complete
C18_Witness ==
    /\ pc = "complete"
    /\ fix = "y"
    /\ Len(results) = 2
    /\ displayed = {1, 2}
    /\ policies.duplicates = "d"
    /\ \A i \in DOMAIN results :
           results[i].status = "PROCESSED" /\ results[i].exception = NoExc

(* C19.  When the MoveResult method fixErrors calls fails with an          *)
(* operating-system error, the result is recoverable after the pass        *)
(* (DUPLICATE or DELETE_FAILURE, with that error stored); the report       *)
(* prints a recoverable result and leaves it as it is, and the while       *)
(* condition is then true, so "attempt to resolve them now?" is asked      *)
(* again, and "Processing complete!" is not reached until the user         *)
(* declines or no result is recoverable.                                   *)
C19_BusyFailureIsOfferedAgain ==
    [][/\ (FixCalls /\ last'.exc.type \in OSErrors) =>
              /\ results'[cur + 1].status \in recoverableErrors
              /\ results'[cur + 1].exception = last'.exc
       /\ Reports =>
              \A i \in DOMAIN results :
                  results[i].status \in recoverableErrors =>
                      results'[i] = results[i] /\ i \in displayed'
       /\ (Reports /\ RecoverableErrorsExist(results)) =>
              WhileCondition(results', fix')
       /\ (pc = "while" /\ WhileCondition(results, fix)) =>
              pc' # "complete"]_vars

\* A pass deleted the source of a duplicate in vain, the file being in
\* use (the destination still has its own content, so the failed unlink is
\* not that of the move); the result was printed as DELETE_FAILURE, the
\* user has accepted once more and the next pass begins
C19_Witness ==
    /\ pc = "fixErrors"
    /\ cur = 0
    /\ policies.inUse = "y"
    /\ \E i \in displayed :
           /\ results[i].status = "DELETE_FAILURE"
           /\ results[i].exception = Exc("PermissionError", "unlink")
           /\ jobs[results[i].file].source \in locked
           /\ IsFile(fs, jobs[results[i].file].source)
           /\ IsFile(fs, jobs[results[i].file].destination)
           /\ fs[jobs[results[i].file].destination]
                  # fs[jobs[results[i].file].source]

(* C20.  In moveFiles the results are made one per job attempted, in job   *)
(* order: the list has as many results as jobs were taken, result i is of  *)
(* job i, and a result is appended by the turn that called that job's      *)
(* move().  An interrupt ends the phase with the list as it was (results   *)
(* and statuses kept, the filesystem untouched); after the phase no result *)
(* is added and no job without a result is touched.  Without an interrupt  *)
(* the phase ends with as many results as jobs, whatever move() raised.    *)
C20_OneResultPerAttemptedJob ==
    [][/\ pc = "moveFiles" =>
              /\ Len(results) = cur
              /\ \A i \in DOMAIN results : results[i].file = i
              /\ cur' = cur + 1 =>
                     /\ results' = Append(results, results'[cur + 1])
                     /\ results'[cur + 1].file = cur + 1
                     /\ last'.op = "move" /\ last'.idx = cur + 1
                     /\ pc' = "moveFiles"
              /\ pc' # "moveFiles" =>
                     /\ results' = results
                     /\ fs' = fs
                     /\ cur = Len(jobs) => Len(results') = Len(jobs')
       /\ pc \notin {"buildObjects", "moveFiles"} =>
              /\ Len(results') = Len(results)
              /\ \A i \in DOMAIN jobs : i > Len(results) => jobs'[i] = jobs[i]]_vars

\* The phase was interrupted after the first of two jobs
C20_Witness ==
    /\ pc = "while"
    /\ Len(jobs) = 2
    /\ Len(results) = 1
    /\ results[1].file = 1

\* A MoveResult method of the running pass was interrupted: the result has
\* the status and the exception fixErrors' last except clause gave it (a
\* report would have made it PROCESSED)
Interrupted ==
    /\ pc = "fixErrors"
    /\ \E i \in DOMAIN results :
           /\ results[i].status = "OTHER_ERROR"
           /\ results[i].exception.type = "KeyboardInterrupt"

(* C21 (as claimed; the code differs).  A user interrupt during a pass of  *)
(* fixErrors ends the pass for the results that remain: the interrupt      *)
(* changes no result but the one being processed, and after it no          *)
(* MoveResult method is run on a later result of that pass and the         *)
(* filesystem and the jobs stay as they are.                               *)
C21_InterruptEndsTheResolvePass ==
    [][/\ (FixCalls /\ last'.exc.type = "KeyboardInterrupt") =>
              /\ Len(results') = Len(results)
              /\ \A i \in DOMAIN results \ {cur + 1} : results'[i] = results[i]
       /\ Interrupted =>
              /\ ~(FixCalls /\ last'.exc.type # "KeyboardInterrupt")
              /\ fs' = fs
              /\ jobs' = jobs]_vars

(* C22.  validate() returns exactly when the source exists and is of the   *)
(* type the variant requires (Video: a regular file; Other: a directory,   *)
(* or a regular file whose suffix is .zip); on a missing source it raises  *)
(* FileNotFoundError, on an existing source of the wrong type TypeError;   *)
(* either way the filesystem and the job are as before the call.           *)
C22_ValidateAcceptsExactlyTypedSources ==
    last.op = "validate" =>
        LET typed == IF last.job.kind = "Video" THEN IsFile(Pre, Src)
                     ELSE \/ IsDir(Pre, Src)
                          \/ IsFile(Pre, Src) /\ Suffix(Name(Src)) = ".zip"
        IN  /\ Returned <=> (Exists(Pre, Src) /\ typed)
            /\ ~Exists(Pre, Src) => last.exc.type = "FileNotFoundError"
            /\ (Exists(Pre, Src) /\ ~typed) => last.exc.type = "TypeError"
            /\ fs = Pre
            /\ jobs[last.idx] = last.job

\* A composite job on a regular file that is no archive is refused
C22_Witness ==
    /\ last.op = "validate"
    /\ last.job.kind = "Other"
    /\ IsFile(Pre, Src)
    /\ Suffix(Name(Src)) # ".zip"
    /\ last.exc = Exc("TypeError", "validate")
    /\ fs = Pre

(* C23.  _extractTag returns the interior of a leading bracketed prefix    *)
(* with the words of each tag joined by underscores and the tags by        *)
(* commas, no space in it ("[one tag, two tag] name": "one_tag,two_tag"),  *)
(* and None when the filename has no bracketed prefix; _extractName        *)
(* returns what follows the prefix without the leading separator           *)
(* ("[one tag]-name": "name"), the whole filename when there is no prefix, *)
(* and raises ValueError when the filename is the prefix alone.            *)
C23_TagAndNameExtraction ==
    pc = "names" =>
        LET fn == args[1]
            tag == JoinWith([i \in DOMAIN fn.tags |-> JoinWith(fn.tags[i], "_")],
                            ",")
        IN  /\ last.op = "_extractTag" =>
                   /\ fn.tags # <<>> =>
                          /\ last.ret = tag
                          /\ \A i \in DOMAIN last.ret : last.ret[i] # " "
                   /\ fn.tags = <<>> => last.ret = NoTag
            /\ last.op = "_extractName" =>
                   /\ fn.base # <<>> => last.ret = fn.base /\ last.exc = NoExc
                   /\ (fn.base = <<>> /\ fn.nameSep = <<>>) =>
                          last.exc.type = "ValueError"

\* "[a tg, tg a]-n-m": two tags of two words, written with spaces
C23_Witness ==
    /\ pc = "names"
    /\ Render(args[1]) =
           <<"[", "a", " ", "t", "g", ",", " ", "t", "g", " ", "a", "]",
             "-", "n", "-", "m">>
    /\ last.op = "_extractTag"
    /\ last.ret = <<"a", "_", "t", "g", ",", "t", "g", "_", "a">>

(* C24.  The policies are asked for (getPolicies) once, when none has been *)
(* built, and are then used by every pass; they are asked for again only   *)
(* when those built are empty and the user accepts "Update policies?".     *)
(* Policies with an action in them stay as they are for the rest of the    *)
(* run, and neither prompt comes again, however many passes follow.        *)
C24_PoliciesAreGatheredOnce ==
    [][/\ pc = "getPolicies" => ~policies.built
       /\ pc = "updatePolicies" => OnlyBuilt(policies)
       /\ policies' # policies => pc \in {"getPolicies", "updatePolicies"}
       /\ policies.built => policies'.built /\ pc' # "getPolicies"
       /\ (policies.built /\ ~OnlyBuilt(policies)) =>
              /\ policies' = policies
              /\ pc' \notin {"getPolicies", "updatePolicies"}]_vars

\* A pass begins with the policies of an earlier pass: that pass was
\* interrupted on a result, since reported
C24_Witness ==
    /\ pc = "fixErrors"
    /\ cur = 0
    /\ policies.built
    /\ ~OnlyBuilt(policies)
    /\ \E i \in DOMAIN results :
           /\ results[i].status = "PROCESSED"
           /\ results[i].exception.type = "KeyboardInterrupt"

\* The answers that name an entry of the category menu
MenuAnswers == {<<"0">>, <<"2">>, <<" ", "1">>, <<"0", "2">>, <<"-", "0">>}

(* C25.  buildOptions sets the destination once, from unset, and only on   *)
(* a valid selection: for a Video by the turn of the category loop whose   *)
(* answer is an index of the menu, to directory/subdirectory/finalName     *)
(* with subdirectory one of live, 3d, animated; for an Other to            *)
(* directory/finalName.  A category answer that is no number or no index   *)
(* of the menu leaves the destination unset, raises nothing and is         *)
(* followed by the prompt again.                                           *)
C25_DestinationSetOnceOnValidCategory ==
    [][/\ jobs'[1].destination # jobs[1].destination =>
              /\ jobs[1].destination = NoPath
              /\ pc' = "built"
              /\ jobs[1].kind = "Video" =>
                     /\ pc = "category"
                     /\ Head(args) \in MenuAnswers
                     /\ \E sub \in {"live", "3d", "animated"} :
                            jobs'[1].destination = D \o <<sub>> \o <<last.finalName>>
              /\ jobs[1].kind = "Other" =>
                     jobs'[1].destination = D \o <<last.finalName>>
       /\ (pc = "category" /\ args' # args) =>
              IF Head(args) \in MenuAnswers
              THEN pc' = "built" /\ jobs'[1].destination # NoPath
              ELSE pc' = "category" /\ jobs'[1].destination = NoPath
       /\ pc = "built" => jobs' = jobs]_vars

\* "x", then "3", then " 1": two refused answers, then 3d
C25_Witness ==
    /\ pc = "built"
    /\ cur = 3
    /\ last.answer = <<" ", "1">>
    /\ jobs[1].destination = D \o <<"3d", "a">>

(* C26.  move() and overwrite() of a job whose destination is not set      *)
(* raise, with the filesystem and the job as they were: nothing is         *)
(* removed or moved and no archive is extracted.  move() raises before it  *)
(* looks at the source, and moveFiles gives that exception OTHER_ERROR,    *)
(* not DUPLICATE or DELETE_FAILURE; overwrite() of a valid source raises   *)
(* the ValueError of _destinationSafety, which is OTHER_ERROR to moveFiles *)
(* and to fixErrors alike.                                                 *)
C26_UnsetDestinationFailsFast ==
    (last.op \in {"move", "overwrite"} /\ Dst = NoPath) =>
        /\ ~Returned
        /\ fs = Pre
        /\ jobs[last.idx] = last.job
        /\ ~last.unzipped
        /\ last.op = "move" =>
               /\ last.exc.at = "move"
               /\ MoveStatusOf(last.exc) = "OTHER_ERROR"
        /\ (last.op = "overwrite" /\ Validate(Pre, last.job) = NoExc) =>
               /\ last.exc = Exc("ValueError", "_destinationSafety")
               /\ MoveStatusOf(last.exc) = "OTHER_ERROR"
               /\ FixStatusOf(last.exc) = "OTHER_ERROR"

\* overwrite() of an archive job without destination: nothing extracted
C26_Witness ==
    /\ last.op = "overwrite"
    /\ Dst = NoPath
    /\ IsZip(Pre, last.job)
    /\ Pre[Src] = "zip"
    /\ ~Exists(Pre, Extracted(last.job))
    /\ last.job.kind = "Other"
    /\ last.exc.type = "ValueError"
    /\ ~Exists(fs, Extracted(last.job))

C28_DeletedOnlyWithDestinationPresent ==
    \A i \in DOMAIN results :
        results[i].status = "DELETED" =>
            Exists(fs, jobs[results[i].file].destination)

====
